---- MODULE Spec2Model ----
(***************************************************************************)
(* GridLayout (src/src/layout/grid.rs): the re-entrant layout operation of *)
(* a grid container, its cursor (current_child) and its columns_cache.     *)
(*                                                                         *)
(* Numbers.  The code computes in f64.  A length v is represented by the   *)
(* integer v * Scale, so that the one division of the code, the stretch    *)
(* share (size.0 - used_width) / count, is exact for every count up to 6   *)
(* and for the halving of Center alignment.  Rounding error of f64 is not  *)
(* modelled.  A division by a count of zero yields a non-finite value,     *)
(* kept apart from the numbers as NonFinite.                               *)
(*                                                                         *)
(* Indices.  GridColumn, ColumnSpan, current_child and the keys of         *)
(* columns_cache are zero-based as in the source; the sequences children   *)
(* and columns are TLA+ sequences, so entry i of the source is [i + 1].    *)
(***************************************************************************)
EXTENDS Integers, Sequences, FiniteSets, TLC

\* ---- bounds of the model -------------------------------------------------
MaxChildren == 2
MaxColumns == 3
MaxUpdates == 8

Scale == 3 * 4 * 5
Px(n) == n * Scale

\* ---- properties (crate::properties, crate::structs) ----------------------
\* ColumnWidth: Auto | Stretch | Width(f64)
Auto == [kind |-> "Auto", value |-> 0]
Stretch == [kind |-> "Stretch", value |-> 0]
Width(w) == [kind |-> "Width", value |-> w]

\* Column { width: ColumnWidth, current_width: f64 }
Column(policy) == [width |-> policy, current_width |-> 0]

\* Margin, Spacer: left / top / right / bottom
Margin(l, t, r, b) == [left |-> l, top |-> t, right |-> r, bottom |-> b]
MarginDefault == Margin(0, 0, 0, 0)

\* Bounds: x / y / width / height
BoundsDefault == [x |-> 0, y |-> 0, width |-> 0, height |-> 0]

\* HorizontalAlignment / VerticalAlignment default
AlignmentDefault == "Start"

\* Stretch -> available - near margin - far margin; otherwise the request.
align_width(alignment, available, width, margin) ==
    IF alignment = "Stretch" THEN available - margin.left - margin.right ELSE width

align_height(alignment, available, height, margin) ==
    IF alignment = "Stretch" THEN available - margin.top - margin.bottom ELSE height

\* Start, Stretch -> near margin; End -> available - length - far margin;
\* Center -> (available - length) / 2.
align_x(alignment, available, width, margin) ==
    CASE alignment = "End" -> available - width - margin.right
      [] alignment = "Center" -> (available - width) \div 2
      [] OTHER -> margin.left

align_y(alignment, available, height, margin) ==
    CASE alignment = "End" -> available - height - margin.bottom
      [] alignment = "Center" -> (available - height) \div 2
      [] OTHER -> margin.top

Min(a, b) == IF a < b THEN a ELSE b
Max(a, b) == IF a < b THEN b ELSE a

\* Constraint::perform: the size kept between the minimum and the maximum.
perform(constraint, w, h) ==
    << Max(constraint.min_width, Min(w, constraint.max_width)),
       Max(constraint.min_height, Min(h, constraint.max_height)) >>

\* ---- helpers of grid.rs ---------------------------------------------------
\* get_margin / the inline Margin lookups: the component or Margin::default()
get_margin(node) == IF node.has_margin THEN node.margin ELSE MarginDefault

get_horizontal_alignment(node) ==
    IF node.has_alignment THEN node.horizontal_alignment ELSE AlignmentDefault

get_vertical_alignment(node) ==
    IF node.has_alignment THEN node.vertical_alignment ELSE AlignmentDefault

\* BTreeMap: a function on a finite set of keys
EmptyMap == << >>
MapInsert(map, key, value) ==
    [k \in (DOMAIN map) \cup {key} |-> IF k = key THEN value ELSE map[k]]

\* faulty variant: the alignment against the parent's constraint is left out
LayoutSize_unaligned(entity, parent_constraint) ==
    perform(entity.constraint, entity.constraint.width, entity.constraint.height)

\* "size is independent from the children": the container's resolved size
LayoutSize(entity, parent_constraint) ==
    perform(entity.constraint,
            align_width(get_horizontal_alignment(entity), parent_constraint.width,
                        entity.constraint.width, get_margin(entity)),
            align_height(get_vertical_alignment(entity), parent_constraint.height,
                         entity.constraint.height, get_margin(entity)))

\* faulty variant: RequestChild carries Constraint::default()
LayoutConstraint_default(entity, parent_constraint) ==
    [width |-> 0, height |-> 0, min_width |-> 0, max_width |-> Px(1000),
     min_height |-> 0, max_height |-> Px(1000)]

\* the constraint handed on in RequestChild: the container's own, resized
LayoutConstraint(entity, parent_constraint) ==
    [entity.constraint EXCEPT !.width = LayoutSize(entity, parent_constraint)[1],
                              !.height = LayoutSize(entity, parent_constraint)[2]]

\* ---- get_column_x_and_width ----------------------------------------------
\* for i in grid_column..(grid_column + column_span): add cached widths, break
\* at the first index the cache does not hold
RECURSIVE SpanLoop(_, _, _, _)
SpanLoop(column_cache, i, end, width) ==
    IF i >= end THEN width
    ELSE IF i \in DOMAIN column_cache
         THEN SpanLoop(column_cache, i + 1, end, width + column_cache[i][2])
         ELSE width

\* faulty variant: the ColumnSpan is ignored, the child gets its own column only
get_column_x_and_width_nospan(column_cache, child, grid_column) ==
    IF grid_column \in DOMAIN column_cache
    THEN << column_cache[grid_column][1], column_cache[grid_column][2] >>
    ELSE << 0, 0 >>

get_column_x_and_width(column_cache, child, grid_column) ==
    LET x == IF grid_column \in DOMAIN column_cache
             THEN column_cache[grid_column][1] ELSE 0
        width == IF child.has_column_span
                 THEN SpanLoop(column_cache, grid_column,
                               grid_column + child.column_span, 0)
                 ELSE IF grid_column \in DOMAIN column_cache
                      THEN column_cache[grid_column][2] ELSE 0
    IN << x, width >>

\* ---- column geometry ------------------------------------------------------
\* faulty variant: the column's current width is not compared
AutoInsert_always(column_widths, child, has_columns, columns) ==
    IF /\ child.has_grid_column
       /\ child.has_constraint
       /\ has_columns
       /\ child.grid_column < Len(columns)
       /\ columns[child.grid_column + 1].width = Auto
    THEN MapInsert(column_widths, child.grid_column,
                   child.constraint_width + get_margin(child).left
                                          + get_margin(child).right)
    ELSE column_widths

\* one iteration of "calculates the auto column widths"
AutoInsert(column_widths, child, has_columns, columns) ==
    IF /\ child.has_grid_column
       /\ child.has_constraint
       /\ has_columns
       /\ child.grid_column < Len(columns)
       /\ columns[child.grid_column + 1].width = Auto
       /\ columns[child.grid_column + 1].current_width < child.constraint_width
    THEN MapInsert(column_widths, child.grid_column,
                   child.constraint_width + get_margin(child).left
                                          + get_margin(child).right)
    ELSE column_widths

RECURSIVE AutoLoop(_, _, _, _, _)
AutoLoop(children, i, column_widths, has_columns, columns) ==
    IF i > Len(children) THEN column_widths
    ELSE AutoLoop(children, i + 1,
                  AutoInsert(column_widths, children[i], has_columns, columns),
                  has_columns, columns)

AutoColumnWidths(children, has_columns, columns) ==
    AutoLoop(children, 1, EmptyMap, has_columns, columns)

\* "sets auto columns width to the width of the largest child"
SetAutoWidths(columns, column_widths) ==
    [i \in 1..Len(columns) |->
        IF (i - 1) \in DOMAIN column_widths
        THEN [columns[i] EXCEPT !.current_width = column_widths[i - 1]]
        ELSE columns[i]]

\* faulty variant: the fixed widths are never applied
SetFixedWidths_none(columns) == columns

\* "sets the width of columns with fixed width"
SetFixedWidths(columns) ==
    [i \in 1..Len(columns) |->
        IF columns[i].width.kind = "Width"
        THEN [columns[i] EXCEPT !.current_width = columns[i].width.value]
        ELSE columns[i]]

RECURSIVE SumWidths(_, _, _)
SumWidths(columns, i, sum) ==
    IF i > Len(columns) THEN sum
    ELSE SumWidths(columns, i + 1,
                   IF columns[i].width # Stretch
                   THEN sum + columns[i].current_width ELSE sum)

used_width(columns) == SumWidths(columns, 1, 0)

StretchCount(columns) ==
    Cardinality({i \in 1..Len(columns) : columns[i].width = Stretch})

\* f64 division: by zero it yields NaN or an infinity, never a panic
NonFinite(numerator) ==
    IF numerator = 0 THEN "NaN" ELSE IF numerator > 0 THEN "inf" ELSE "-inf"

\* faulty variant: the width the other columns use is not subtracted
stretch_width_whole(size_width, columns) ==
    IF StretchCount(columns) = 0
    THEN NonFinite(size_width)
    ELSE size_width \div StretchCount(columns)

stretch_width(size_width, columns) ==
    IF StretchCount(columns) = 0
    THEN NonFinite(size_width - used_width(columns))
    ELSE (size_width - used_width(columns)) \div StretchCount(columns)

\* faulty variant: with no Stretch column the share, taken as 0, goes to the
\* Auto columns
SetStretchWidths_zeroed(columns, size_width) ==
    [i \in 1..Len(columns) |->
        IF columns[i].width = Stretch
        THEN [columns[i] EXCEPT !.current_width = stretch_width(size_width, columns)]
        ELSE IF StretchCount(columns) = 0 /\ columns[i].width = Auto
             THEN [columns[i] EXCEPT !.current_width = 0]
             ELSE columns[i]]

\* "calculates the width of the stretch columns": only Stretch columns are set
SetStretchWidths(columns, size_width) ==
    [i \in 1..Len(columns) |->
        IF columns[i].width = Stretch
        THEN [columns[i] EXCEPT !.current_width = stretch_width(size_width, columns)]
        ELSE columns[i]]

\* faulty variant: the offset is recorded after it was advanced
InsertColumn_advanced(column_cache, i, column_sum, current_width) ==
    MapInsert(column_cache, i, << column_sum + current_width, current_width >>)

\* columns_cache.insert(i, (column_sum, current_width))
InsertColumn(column_cache, i, column_sum, current_width) ==
    MapInsert(column_cache, i, << column_sum, current_width >>)

\* for i in 0..columns.len(): insert, then advance column_sum
RECURSIVE CacheLoop(_, _, _, _)
CacheLoop(columns, i, column_sum, column_cache) ==
    IF i >= Len(columns) THEN column_cache
    ELSE CacheLoop(columns, i + 1, column_sum + columns[i + 1].current_width,
                   InsertColumn(column_cache, i, column_sum,
                                columns[i + 1].current_width))

\* ---- the inputs the model draws from --------------------------------------
Constraint(w, h) ==
    [width |-> w, height |-> h, min_width |-> 0, max_width |-> Px(1000),
     min_height |-> 0, max_height |-> Px(1000)]

\* Constraint::default()
ConstraintDefault == Constraint(0, 0)

\* the constraint the driver passes down to the container
ParentConstraint == Constraint(Px(220), Px(100))

\* a container of its own width 300, and one stretched into its parent (200)
EntityKinds ==
    { [constraint |-> Constraint(Px(300), Px(100)), has_margin |-> FALSE,
       margin |-> MarginDefault, has_alignment |-> FALSE,
       horizontal_alignment |-> "Start", vertical_alignment |-> "Start",
       bounds |-> BoundsDefault],
      [constraint |-> Constraint(0, 0), has_margin |-> TRUE,
       margin |-> Margin(Px(10), 0, Px(10), 0), has_alignment |-> TRUE,
       horizontal_alignment |-> "Stretch", vertical_alignment |-> "Stretch",
       bounds |-> BoundsDefault] }

Child(has_gc, gc, has_span, span, has_c, cw, has_m, m, has_a, ha, va, measure) ==
    [has_grid_column |-> has_gc, grid_column |-> gc,
     has_column_span |-> has_span, column_span |-> span,
     has_constraint |-> has_c, constraint_width |-> cw,
     has_margin |-> has_m, margin |-> m,
     has_alignment |-> has_a, horizontal_alignment |-> ha, vertical_alignment |-> va,
     measure |-> measure]

\* column 1, width 80, nothing else set
ChildWide ==
    Child(TRUE, 1, FALSE, 0, TRUE, Px(80), FALSE, MarginDefault,
          FALSE, "Start", "Start", << Px(80), Px(20) >>)
\* column 1 spanning 2, width 40 with margins 10 + 10, stretched
ChildNarrow ==
    Child(TRUE, 1, TRUE, 2, TRUE, Px(40), TRUE, Margin(Px(10), 0, Px(10), 0),
          TRUE, "Stretch", "Center", << Px(40), Px(20) >>)
\* column 2 spanning 5, stretched
ChildSpan ==
    Child(TRUE, 2, TRUE, 5, TRUE, Px(40), FALSE, MarginDefault,
          TRUE, "Stretch", "End", << Px(40), Px(20) >>)
\* no GridColumn, no ColumnSpan, no Constraint, no Margin, no alignment
ChildBare ==
    Child(FALSE, 0, FALSE, 0, FALSE, 0, FALSE, MarginDefault,
          FALSE, "Start", "Start", << Px(20), Px(20) >>)
\* a GridColumn no grid of the model has, a ColumnSpan of 0
ChildStray ==
    Child(TRUE, 7, TRUE, 0, TRUE, Px(80), TRUE, Margin(Px(10), 0, 0, 0),
          TRUE, "Stretch", "Start", << Px(80), Px(20) >>)

ChildKinds == {ChildWide, ChildNarrow, ChildSpan, ChildBare, ChildStray}

ChildLists == UNION {[1..n -> ChildKinds] : n \in 0..MaxChildren}

ColumnWidths == {Auto, Stretch, Width(Px(50))}

ColumnLists ==
    UNION {[1..n -> {Column(w) : w \in ColumnWidths}] : n \in 0..MaxColumns}

\* ---- state ----------------------------------------------------------------
VARIABLES
    entity,          \* the container's Constraint, Margin, alignment and Bounds
    has_columns,     \* whether the container has a Columns component
    columns,         \* its Columns: policy and current width of each Column
    children,        \* the children list the driver passes
    bounds,          \* Bounds of each child
    current_child,   \* GridLayout.current_child
    columns_cache,   \* GridLayout.columns_cache
    pc,              \* the driver: "idle", "awaiting" (a child requested), "done";
                     \* "panic" after an index out of range
    result,          \* the LayoutResult of the last call
    requested,       \* children named by RequestChild in the current pass
    calls,           \* measurement-return calls made in the current pass
    lookup,          \* last (offset_x, available_width) taken from the cache
    history,         \* "fresh", then "first" and "second" for the first two
                     \* passes while they run undisturbed, "later" otherwise
    first_pass,      \* cache, columns, bounds after the first pass, kept while
                     \* the second runs undisturbed
    prev,            \* current_child and size of the cache when the pass began
    builder,         \* ItemsWidgetState.builder: NoBuilder or a closure
    built,           \* the ItemsWidget's template has been built
    items_panel,     \* entity_of_child("items_panel") finds the panel
    appended,        \* the children appended to items_panel so far
    builder_calls,   \* calls of the builder made by the last update
    update_calls     \* calls of ItemsWidgetState::update so far

grid_vars == << entity, has_columns, columns, children, bounds, current_child,
                columns_cache, pc, result, requested, calls, lookup, history,
                first_pass, prev >>

items_vars == << builder, built, items_panel, appended, builder_calls,
                 update_calls >>

vars == << entity, has_columns, columns, children, bounds, current_child,
           columns_cache, pc, result, requested, calls, lookup, history,
           first_pass, prev, builder, built, items_panel, appended,
           builder_calls, update_calls >>

\* LayoutResult::RequestChild(child, constraint) | LayoutResult::Size(size)
\* width, height: the size of Size, and of the constraint of RequestChild
RequestChild(child, constraint) ==
    [kind |-> "RequestChild", child |-> child, constraint |-> constraint,
     width |-> constraint.width, height |-> constraint.height]
Size(size) ==
    [kind |-> "Size", child |-> 0, constraint |-> ConstraintDefault,
     width |-> size[1], height |-> size[2]]

NoResult == [kind |-> "None", child |-> 0, constraint |-> ConstraintDefault,
             width |-> 0, height |-> 0]

Snapshot == [columns_cache |-> columns_cache, columns |-> columns, bounds |-> bounds]
NoSnapshot == [columns_cache |-> EmptyMap, columns |-> << >>, bounds |-> << >>]

\* ItemsWidgetState::default(): no builder; nothing is built yet
NoBuilder == "None"

ItemsStart ==
    /\ builder = NoBuilder
    /\ built = FALSE
    /\ items_panel = FALSE
    /\ appended = << >>
    /\ builder_calls = 0
    /\ update_calls = 0

Init ==
    /\ ItemsStart
    /\ entity \in EntityKinds
    /\ has_columns \in BOOLEAN
    /\ columns \in IF has_columns THEN ColumnLists ELSE {<< >>}
    /\ children \in ChildLists
    /\ bounds = [i \in 1..Len(children) |-> BoundsDefault]
    /\ current_child = 0
    /\ columns_cache = EmptyMap
    /\ pc = "idle"
    /\ result = NoResult
    /\ requested = << >>
    /\ calls = 0
    /\ lookup = << 0, 0 >>
    /\ history = "fresh"
    /\ first_pass = NoSnapshot
    /\ prev = [current_child |-> 0, cached |-> 0]

\* ---- layout(.., child_size = None): the first call of a pass --------------
\* faulty variant: the cursor is reset before children.is_empty() is looked at
StartCursor_always(kids, cursor) == 0

\* faulty variant: the first call leaves the cursor where the last pass ended
StartCursor_never(kids, cursor) == cursor

\* children.is_empty() returns before the reset
StartCursor(kids, cursor) == IF kids = << >> THEN cursor ELSE 0

\* faulty variant: the cache is not cleared
ClearedCache_kept(kids, cache) == cache

ClearedCache(kids, cache) == IF kids = << >> THEN cache ELSE EmptyMap

\* the geometry runs when the container has a non-empty Columns
HasGrid(has_cols, cols) == has_cols /\ Len(cols) > 0

\* faulty variant: the geometry also runs for an empty children list
StartColumns_always(kids, has_cols, cols, size_width) ==
    IF HasGrid(has_cols, cols)
    THEN SetStretchWidths(
             SetFixedWidths(
                 SetAutoWidths(cols, AutoColumnWidths(kids, has_cols, cols))),
             size_width)
    ELSE cols

StartColumns(kids, has_cols, cols, size_width) ==
    IF kids # << >> /\ HasGrid(has_cols, cols)
    THEN SetStretchWidths(
             SetFixedWidths(
                 SetAutoWidths(cols, AutoColumnWidths(kids, has_cols, cols))),
             size_width)
    ELSE cols

StartCache(kids, has_cols, new_cols, cache) ==
    IF kids # << >> /\ HasGrid(has_cols, new_cols)
    THEN CacheLoop(new_cols, 0, 0, ClearedCache(kids, cache))
    ELSE ClearedCache(kids, cache)

LayoutStart ==
    /\ pc \in {"idle", "done"}
    /\ LET size == LayoutSize(entity, ParentConstraint)
           new_cols == StartColumns(children, has_columns, columns, size[1])
       IN /\ current_child' = StartCursor(children, current_child)
          /\ columns' = new_cols
          /\ columns_cache' = StartCache(children, has_columns, new_cols, columns_cache)
          /\ result' = IF children = << >>
                       THEN Size(size)
                       ELSE RequestChild(StartCursor(children, current_child),
                                         LayoutConstraint(entity, ParentConstraint))
          /\ pc' = IF children = << >> THEN "done" ELSE "awaiting"
          /\ requested' = IF children = << >> THEN << >>
                          ELSE << StartCursor(children, current_child) >>
    /\ history' = CASE history = "fresh" -> "first"
                     [] history = "first" /\ pc = "done" -> "second"
                     [] OTHER -> "later"
    /\ first_pass' = IF history = "first" /\ pc = "done" THEN Snapshot ELSE NoSnapshot
    /\ prev' = [current_child |-> current_child,
                cached |-> Cardinality(DOMAIN columns_cache)]
    /\ calls' = 0
    /\ UNCHANGED << entity, has_columns, children, bounds, lookup >>
    /\ UNCHANGED items_vars

\* ---- layout(.., child_size = Some(..)): a child's measurement returns -----
\* faulty variant: the cursor advances by two
NextChild_skip(cursor) == cursor + 2

NextChild(cursor) == cursor + 1

\* faulty variant: a missing GridColumn defaults to column 1
GridColumnOf_one(child) == IF child.has_grid_column THEN child.grid_column ELSE 1

GridColumnOf(child) == IF child.has_grid_column THEN child.grid_column ELSE 0

\* faulty variant: plain mode writes the measured width and height as well
PlaceChild_plainsize(child, old, size, has_cols, cols, cache) ==
    LET c_margin == get_margin(child)
        c_va == get_vertical_alignment(child)
        c_ha == get_horizontal_alignment(child)
        xw == get_column_x_and_width(cache, child, GridColumnOf(child))
    IN IF ~HasGrid(has_cols, cols)
       THEN [old EXCEPT !.x = align_x(c_ha, size[1], child.measure[1], c_margin),
                        !.y = align_y(c_va, size[2], child.measure[2], c_margin),
                        !.width = child.measure[1],
                        !.height = child.measure[2]]
       ELSE [old EXCEPT !.x = xw[1] + align_x(c_ha, size[1], child.measure[1], c_margin),
                        !.width = align_width(c_ha, xw[2], child.measure[1], c_margin),
                        !.y = align_y(c_va, size[2], child.measure[2], c_margin)]

\* the Bounds written for the measured child
PlaceChild(child, old, size, has_cols, cols, cache) ==
    LET c_margin == get_margin(child)
        c_va == get_vertical_alignment(child)
        c_ha == get_horizontal_alignment(child)
        xw == get_column_x_and_width(cache, child, GridColumnOf(child))
    IN IF ~HasGrid(has_cols, cols)
       THEN [old EXCEPT !.x = align_x(c_ha, size[1], child.measure[1], c_margin),
                        !.y = align_y(c_va, size[2], child.measure[2], c_margin)]
       ELSE [old EXCEPT !.x = xw[1] + align_x(c_ha, size[1], child.measure[1], c_margin),
                        !.width = align_width(c_ha, xw[2], child.measure[1], c_margin),
                        !.y = align_y(c_va, size[2], child.measure[2], c_margin)]

\* faulty variant: the measurement branch falls through to the geometry code
ReturnColumns_fallthrough(kids, has_cols, cols, size_width) ==
    StartColumns(kids, has_cols, cols, size_width)

\* the measurement branch returns at both of its ends: the geometry code that
\* follows it is not reached and the columns stay as they are
ReturnColumns(kids, has_cols, cols, size_width) == cols

\* children[self.current_child.get()] panics when the cursor is out of range
LayoutChild ==
    /\ pc = "awaiting"
    /\ IF current_child >= Len(children)
       THEN /\ pc' = "panic"
            /\ UNCHANGED << bounds, lookup, current_child, result, requested, calls,
                            columns >>
       ELSE LET size == LayoutSize(entity, ParentConstraint)
                child == children[current_child + 1]
            IN /\ bounds' = [bounds EXCEPT ![current_child + 1] =
                                PlaceChild(child, @, size, has_columns, columns,
                                           columns_cache)]
               /\ lookup' = IF HasGrid(has_columns, columns)
                            THEN get_column_x_and_width(columns_cache, child,
                                                        GridColumnOf(child))
                            ELSE lookup
               /\ columns' = ReturnColumns(children, has_columns, columns, size[1])
               /\ current_child' = NextChild(current_child)
               /\ calls' = calls + 1
               /\ IF NextChild(current_child) < Len(children)
                  THEN /\ result' = RequestChild(NextChild(current_child),
                                         LayoutConstraint(entity, ParentConstraint))
                       /\ requested' = Append(requested, NextChild(current_child))
                       /\ pc' = "awaiting"
                  ELSE /\ result' = Size(size)
                       /\ requested' = requested
                       /\ pc' = "done"
    /\ UNCHANGED << entity, has_columns, children, columns_cache, history,
                    first_pass, prev >>
    /\ UNCHANGED items_vars

\* ---- the driver and the widget tree between passes ------------------------
\* the driver gives up a pass it has not finished
Abandon ==
    /\ pc = "awaiting"
    /\ pc' = "idle"
    /\ history' = "later"
    /\ result' = NoResult
    /\ requested' = << >>
    /\ calls' = 0
    /\ lookup' = << 0, 0 >>
    /\ first_pass' = NoSnapshot
    /\ prev' = [current_child |-> 0, cached |-> 0]
    /\ UNCHANGED << entity, has_columns, columns, children, bounds, current_child,
                    columns_cache >>
    /\ UNCHANGED items_vars

\* the last child is removed from the container
RemoveChild ==
    /\ pc = "done"
    /\ Len(children) > 0
    /\ children' = SubSeq(children, 1, Len(children) - 1)
    /\ bounds' = SubSeq(bounds, 1, Len(bounds) - 1)
    /\ pc' = "idle"
    /\ history' = "later"
    /\ result' = NoResult
    /\ requested' = << >>
    /\ calls' = 0
    /\ lookup' = << 0, 0 >>
    /\ first_pass' = NoSnapshot
    /\ prev' = [current_child |-> 0, cached |-> 0]
    /\ UNCHANGED << entity, has_columns, columns, current_child, columns_cache >>
    /\ UNCHANGED items_vars

\* the last Column is removed from Columns
ShortenColumns ==
    /\ pc = "done"
    /\ has_columns
    /\ Len(columns) > 0
    /\ columns' = SubSeq(columns, 1, Len(columns) - 1)
    /\ pc' = "idle"
    /\ history' = "later"
    /\ result' = NoResult
    /\ requested' = << >>
    /\ calls' = 0
    /\ lookup' = << 0, 0 >>
    /\ first_pass' = NoSnapshot
    /\ prev' = [current_child |-> 0, cached |-> 0]
    /\ UNCHANGED << entity, has_columns, children, bounds, current_child,
                    columns_cache >>
    /\ UNCHANGED items_vars

Next == LayoutStart \/ LayoutChild \/ Abandon \/ RemoveChild \/ ShortenColumns

Spec == Init /\ [][Next]_vars

\* ---- properties ------------------------------------------------------------
\* a pass over a non-empty children list has made its first call: the column
\* geometry of this pass is computed
GeometryDone == pc \in {"awaiting", "done"} /\ children # << >>

\* the first call of a pass over a non-empty list has just returned
PassStarted == pc = "awaiting" /\ Len(requested) = 1

\* the resolved size S of the container
S == LayoutSize(entity, ParentConstraint)

Policies == [i \in 1..Len(columns) |-> columns[i].width]
CurrentWidths == [i \in 1..Len(columns) |-> columns[i].current_width]

ColumnsOf(policy) == {i \in 1..Len(columns) : columns[i].width = policy}

MaxOf(set) == CHOOSE m \in set : \A x \in set : x <= m

RECURSIVE SumOver(_, _)
SumOver(f, set) ==
    IF set = {} THEN 0
    ELSE LET i == CHOOSE j \in set : TRUE IN f[i] + SumOver(f, set \ {i})

\* C1 (idempotent re-pass): on a container whose Auto columns start at 0, a
\* second full pass with unchanged inputs ends with the column current widths,
\* the columns_cache and every child's Bounds the first pass ended with.
C1_IdempotentRepass ==
    (history = "second" /\ pc = "done") =>
        /\ CurrentWidths = [i \in 1..Len(first_pass.columns) |->
                               first_pass.columns[i].current_width]
        /\ columns_cache = first_pass.columns_cache
        /\ bounds = first_pass.bounds

\* C2 (request order): within a pass the children named by RequestChild are
\* children[0], children[1], ... in this order, each once; the call after the
\* last child's measurement returns Size, when all N have been requested.
C2_RequestOrder ==
    /\ \A i \in 1..Len(requested) : requested[i] = i - 1
    /\ Len(requested) <= Len(children)
    /\ pc = "awaiting" =>
          /\ result.kind = "RequestChild"
          /\ result.child = requested[Len(requested)]
          /\ result.child = current_child
    /\ (pc = "done" /\ children # << >>) =>
          /\ result.kind = "Size"
          /\ Len(requested) = Len(children)
    /\ pc # "panic"

C2_Witness ==
    /\ pc = "done"
    /\ Len(children) = MaxChildren
    /\ requested = [i \in 1..MaxChildren |-> i - 1]

\* C3 (P1, auto-measure): with one Auto column and every child declaring that
\* column and a Constraint, the column's current width after the geometry
\* computation is the largest constraint width + left margin + right margin.
AllInOneAutoColumn ==
    /\ has_columns
    /\ Cardinality(ColumnsOf(Auto)) = 1
    /\ \A k \in 1..Len(children) :
          /\ children[k].has_grid_column
          /\ children[k].has_constraint
          /\ children[k].grid_column + 1 \in ColumnsOf(Auto)

C3_AutoIsMax ==
    (GeometryDone /\ history = "first" /\ AllInOneAutoColumn) =>
        \A c \in ColumnsOf(Auto) :
            columns[c].current_width =
                MaxOf({children[k].constraint_width + get_margin(children[k]).left
                           + get_margin(children[k]).right : k \in 1..Len(children)})

\* C4 (P3, stretch sums to the container): with k >= 1 Stretch columns and
\* non-Stretch columns of total current width U, after the geometry computation
\* every Stretch column is (S - U) / k wide and all columns together are S wide;
\* 300 with [Fixed(50), Auto, Stretch] and one child of width 80 in column 1
\* gives 50, 80, 170.
C4_StretchSumsToContainer ==
    /\ (GeometryDone /\ has_columns /\ ColumnsOf(Stretch) # {}) =>
          LET k == Cardinality(ColumnsOf(Stretch))
              U == SumOver(CurrentWidths, (1..Len(columns)) \ ColumnsOf(Stretch))
          IN /\ \A i \in ColumnsOf(Stretch) : columns[i].current_width * k = S[1] - U
             /\ SumOver(CurrentWidths, 1..Len(columns)) = S[1]
    /\ ( /\ GeometryDone
         /\ history = "first"
         /\ S[1] = Px(300)
         /\ has_columns
         /\ Policies = << Width(Px(50)), Auto, Stretch >>
         /\ children = << ChildWide >> ) =>
          CurrentWidths = << Px(50), Px(80), Px(170) >>

C4_Witness ==
    /\ pc = "done"
    /\ S[1] = Px(300)
    /\ has_columns
    /\ Policies = << Width(Px(50)), Auto, Stretch >>
    /\ children = << ChildWide >>
    /\ CurrentWidths = << Px(50), Px(80), Px(170) >>

\* C5 (P2, fixed overrides auto): after the geometry computation of any pass a
\* Fixed(w) column is w wide, whatever it was before and whatever the children
\* mapped to it ask for.
C5_FixedIsFixed ==
    (GeometryDone /\ has_columns) =>
        \A i \in 1..Len(columns) :
            columns[i].width.kind = "Width" =>
                columns[i].current_width = columns[i].width.value

\* a child asking for 80 sits in a Fixed(50) column
C5_Witness ==
    /\ PassStarted
    /\ history = "first"
    /\ has_columns
    /\ Len(columns) >= 2
    /\ columns[2].width = Width(Px(50))
    /\ columns[2].current_width = Px(50)
    /\ children[1] = ChildWide

\* C6 (P4, offsets): a non-empty columns_cache starts at offset 0 and every
\* entry's offset is its predecessor's offset plus its predecessor's width; in
\* every state of a pass each entry's width is its column's current width.
C6_CacheOffsets ==
    /\ DOMAIN columns_cache # {} =>
          /\ 0 \in DOMAIN columns_cache
          /\ columns_cache[0][1] = 0
          /\ \A i \in DOMAIN columns_cache :
                (i + 1) \in DOMAIN columns_cache =>
                    columns_cache[i + 1][1] = columns_cache[i][1] + columns_cache[i][2]
    /\ GeometryDone =>
          \A i \in DOMAIN columns_cache :
              /\ i < Len(columns)
              /\ columns_cache[i][2] = columns[i + 1].current_width

C6_Witness ==
    /\ pc = "awaiting"
    /\ DOMAIN columns_cache = 0..2
    /\ columns_cache[1][1] > 0
    /\ columns_cache[2][1] > columns_cache[1][1]

\* the child the last measurement call placed, in a grid
PlacedInGrid ==
    GeometryDone /\ current_child >= 1 /\ HasGrid(has_columns, columns)

\* C7 (P5, span truncation): a child with GridColumn c and ColumnSpan s in a
\* grid of n columns is given the summed widths of columns c .. min(c + s, n) - 1
\* as its available width (column 2 alone for c = 2, s = 5, n = 3), and the call
\* returns RequestChild or Size as usual.
C7_SpanTruncation ==
    (PlacedInGrid /\ children[current_child].has_column_span) =>
        LET child == children[current_child]
            c == GridColumnOf(child)
            n == Len(columns)
            available == SumOver(CurrentWidths,
                                 {i \in 1..n : c < i /\ i <= Min(c + child.column_span, n)})
        IN /\ lookup[2] = available
           /\ bounds[current_child].width =
                  align_width(get_horizontal_alignment(child), available,
                              child.measure[1], get_margin(child))
           /\ result.kind \in {"RequestChild", "Size"}

C7_Witness ==
    /\ PlacedInGrid
    /\ children[current_child] = ChildSpan
    /\ Len(columns) = 3
    /\ columns[2].current_width > 0
    /\ columns[3].current_width > 0
    /\ lookup[2] = columns[3].current_width
    /\ bounds[current_child].width = columns[3].current_width

\* C8 (empty-children short-circuit): the first call of a pass with an empty
\* children list returns Size(S) and leaves current_child, columns_cache and
\* every column's current width as they were.
C8_EmptyShortCircuit ==
    [][(LayoutStart /\ children = << >>) =>
          /\ result' = Size(S)
          /\ pc' = "done"
          /\ UNCHANGED << current_child, columns_cache, columns >>]_vars

\* an empty pass that ends with the cursor and the cache of an earlier pass
C8_Witness ==
    /\ pc = "done"
    /\ children = << >>
    /\ result = Size(S)
    /\ current_child > 0
    /\ DOMAIN columns_cache # {}
    /\ \E i \in 1..Len(columns) : columns[i].current_width > 0

\* Scenario B's container: width 200, Columns = [Stretch, Stretch]
ScenarioB == S[1] = Px(200) /\ has_columns /\ Policies = << Stretch, Stretch >>

\* C9 as stated (Scenario B): a pass over no children resolves both Stretch
\* columns of a container 200 wide to 100.
C9_EmptyPassResolvesColumns ==
    (ScenarioB /\ children = << >> /\ pc = "done") =>
        CurrentWidths = << Px(100), Px(100) >>

\* C9 as amended: a pass over no children returns Size at once and leaves both
\* columns as wide as they were, 0 on a container just built; a pass over at
\* least one child resolves both to 100.
C9_ColumnsResolveWithChildren ==
    ScenarioB =>
        /\ (children = << >> /\ pc = "done" /\ history = "first") =>
              CurrentWidths = << 0, 0 >>
        /\ GeometryDone => CurrentWidths = << Px(100), Px(100) >>

C9_Witness ==
    /\ ScenarioB
    /\ children = << >>
    /\ pc = "done"
    /\ history = "first"
    /\ result = Size(S)
    /\ CurrentWidths = << 0, 0 >>

\* C10 (pass-start reset): when the first call of a pass over a non-empty
\* children list returns, current_child is 0 and columns_cache has exactly one
\* entry per column of the container's Columns, none without Columns.
C10_PassStartReset ==
    PassStarted =>
        /\ current_child = 0
        /\ DOMAIN columns_cache =
               IF has_columns THEN {i - 1 : i \in 1..Len(columns)} ELSE {}

\* the pass began with the cursor of an earlier pass and with more cache
\* entries than the container now has columns
C10_Witness ==
    /\ PassStarted
    /\ prev.current_child > 0
    /\ prev.cached > Len(columns)
    /\ current_child = 0
    /\ Cardinality(DOMAIN columns_cache) = Len(columns)

\* C11 (geometry once per pass): in a pass over N >= 1 children the column
\* current widths and the columns_cache are written by the first call only, which
\* writes no child's Bounds; no measurement-return call changes them.
C11_GeometryOncePerPass ==
    [][/\ LayoutChild => UNCHANGED << columns, columns_cache >>
       /\ (LayoutStart /\ children # << >>) =>
             /\ bounds' = bounds
             /\ calls' = 0
             /\ HasGrid(has_columns, columns) =>
                   /\ DOMAIN columns_cache' = {i - 1 : i \in 1..Len(columns)}
                   /\ \A i \in 1..Len(columns) :
                         columns_cache'[i - 1][2] = columns'[i].current_width]_vars

\* all children of a grid are measured and placed, the geometry is as the
\* first call left it
C11_Witness ==
    /\ pc = "done"
    /\ Len(children) = MaxChildren
    /\ calls = MaxChildren
    /\ HasGrid(has_columns, columns)
    /\ Cardinality(DOMAIN columns_cache) = Len(columns)
    /\ \E i \in 1..Len(columns) : columns[i].width = Auto /\ columns[i].current_width > 0
    /\ bounds[1] # BoundsDefault

\* what a child declaring GridColumn c and ColumnSpan s gets from the columns
SpanOf(c, s) ==
    << IF c < Len(columns) THEN columns_cache[c][1] ELSE 0,
       SumOver(CurrentWidths,
               {i \in 1..Len(columns) : c < i /\ i <= Min(c + s, Len(columns))}) >>

ContinuedAfterChild == pc = "awaiting" /\ calls >= 1

\* C13 as stated: every RequestChild returned after a child measurement carries
\* the default constraint, whatever the container's Constraint and size S.
C13_DefaultConstraint ==
    ContinuedAfterChild => result.constraint = ConstraintDefault

\* C13 as amended: it names children[current_child] and carries the container's
\* own Constraint with width and height set to the resolved size S.
C13_ContainerConstraint ==
    ContinuedAfterChild =>
        /\ result.kind = "RequestChild"
        /\ result.child = current_child
        /\ result.constraint.width = S[1]
        /\ result.constraint.height = S[2]
        /\ result.constraint.min_width = entity.constraint.min_width
        /\ result.constraint.max_width = entity.constraint.max_width
        /\ result.constraint.min_height = entity.constraint.min_height
        /\ result.constraint.max_height = entity.constraint.max_height

\* the container's own Constraint is the default one, the constraint handed to
\* the second child is 200 wide
C13_Witness ==
    /\ ContinuedAfterChild
    /\ entity.constraint = ConstraintDefault
    /\ result.kind = "RequestChild"
    /\ result.child = 1
    /\ result.constraint.width = Px(200)
    /\ result.constraint # ConstraintDefault

\* C14 (size independent of the children): for fixed Constraint, Margin,
\* alignment and parent constraint of the container every pass returns the same
\* Size, whatever the number, the attributes and the measurements of the
\* children: 300 x 100 for the container of that Constraint, 200 x 100 for the one
\* stretched into a parent of 220 x 100 with margins 10 + 10.
C14_SizeIndependentOfChildren ==
    result.kind = "Size" =>
        << result.width, result.height >> =
            IF get_horizontal_alignment(entity) = "Stretch"
            THEN << Px(200), Px(100) >>
            ELSE << Px(300), Px(100) >>

\* a pass over two different children of a grid ended with that size
C14_Witness ==
    /\ pc = "done"
    /\ Len(children) >= 2
    /\ children[1] # children[2]
    /\ children[1].measure # children[2].measure
    /\ HasGrid(has_columns, columns)
    /\ result.kind = "Size"
    /\ << result.width, result.height >> = << Px(200), Px(100) >>

\* ---- a compliant driver -----------------------------------------------------
\* the driver answers every RequestChild with the measurement of that child and
\* never gives a pass up; the tree may still change between passes
CompliantNext == LayoutStart \/ LayoutChild \/ RemoveChild \/ ShortenColumns

CompliantSpec == Init /\ [][CompliantNext]_vars /\ WF_vars(LayoutChild)

\* C15 (pass completion): under a compliant driver every pass that has returned
\* RequestChild reaches Size; a finished pass over N children has taken exactly
\* N measurement calls (0 for N = 0); and a pass goes from RequestChild to Size
\* by a measurement call only, so a pass whose RequestChild is never answered
\* never reaches Size.
C15_PassCompletion ==
    /\ [](pc = "done" => calls = Len(children))
    /\ [][(pc = "awaiting" /\ pc' = "done") =>
              (calls' = calls + 1 /\ current_child' = Len(children))]_vars
    /\ [](pc = "awaiting" => <>(pc = "done"))

\* a first pass over the longest children list ended after that many calls
C15_Witness ==
    /\ pc = "done"
    /\ history = "first"
    /\ Len(children) = MaxChildren
    /\ calls = MaxChildren
    /\ result.kind = "Size"

\* a measurement call that placed a child (the cursor was in range)
Measured == LayoutChild /\ pc' # "panic"

\* C16 (frame of a measurement call): a measurement call changes the Bounds of
\* the child at the cursor only, never the container's Bounds or another
\* child's; without a grid (Columns absent or empty) the child's width and
\* height stay as they were, and with a grid its height stays as it was.
C16_MeasurementFrame ==
    [][Measured =>
          /\ entity'.bounds = entity.bounds
          /\ Len(bounds') = Len(bounds)
          /\ \A i \in 1..Len(bounds) :
                 i # current_child + 1 => bounds'[i] = bounds[i]
          /\ bounds'[current_child + 1].height = bounds[current_child + 1].height
          /\ ~HasGrid(has_columns, columns) =>
                 bounds'[current_child + 1].width = bounds[current_child + 1].width]_vars

\* without a grid the second child of two was placed: x and y are written, its
\* width and height and the first child's Bounds are as before
C16_Witness ==
    /\ pc = "done"
    /\ ~HasGrid(has_columns, columns)
    /\ Len(children) = 2
    /\ children[2].measure[1] > 0
    /\ bounds[2].x > 0
    /\ bounds[2].y > 0
    /\ bounds[2].width = 0
    /\ bounds[2].height = 0
    /\ entity.bounds = BoundsDefault

\* ---- a stable children list -------------------------------------------------
\* any number of passes, finished or given up, over the children list the
\* container started with; Columns may still change between passes
StableNext == LayoutStart \/ LayoutChild \/ Abandon \/ ShortenColumns

StableSpec == Init /\ [][StableNext]_vars

\* C18 (cursor in bounds): over a stable children list the cursor is between 0
\* and children.len() in every state, it is below children.len() whenever a
\* measurement call is due, and the lookup children[cursor] never panics.
C18_CursorInBounds ==
    /\ 0 <= current_child
    /\ current_child <= Len(children)
    /\ pc = "awaiting" => current_child < Len(children)
    /\ pc # "panic"

\* the second pass over two children, whose first call found the cursor at
\* children.len(), waits for its last measurement
C18_Witness ==
    /\ history = "second"
    /\ pc = "awaiting"
    /\ Len(children) = 2
    /\ prev.current_child = Len(children)
    /\ current_child = Len(children) - 1

\* the first call of a pass that runs the geometry over Columns without a
\* Stretch column
StartWithoutStretch ==
    /\ LayoutStart
    /\ children # << >>
    /\ HasGrid(has_columns, columns)
    /\ StretchCount(columns) = 0

\* C19 (no Stretch column): when Columns holds no Stretch column the stretch
\* step changes no current width: after the geometry the columns are what the
\* Auto and the Fixed step made of them, the cache is built from those widths,
\* and every stored width and offset is a number, never the quotient by zero.
C19_NoStretchColumn ==
    [][StartWithoutStretch =>
          /\ columns' = SetFixedWidths(
                            SetAutoWidths(columns,
                                AutoColumnWidths(children, has_columns, columns)))
          /\ columns_cache' = CacheLoop(columns', 0, 0, EmptyMap)
          /\ \A i \in 1..Len(columns') : columns'[i].current_width \in Int
          /\ \A k \in DOMAIN columns_cache' :
                 columns_cache'[k][1] \in Int /\ columns_cache'[k][2] \in Int]_vars

\* a Fixed and an Auto column, no Stretch column: the geometry has run and left
\* 50 and the Auto width 80, cached at offsets 0 and 50
C19_Witness ==
    /\ PassStarted
    /\ Policies = << Width(Px(50)), Auto >>
    /\ CurrentWidths = << Px(50), Px(80) >>
    /\ columns_cache[0] = << 0, Px(50) >>
    /\ columns_cache[1] = << Px(50), Px(80) >>

Builders == {"first", "second"}

\* the grid is left as constructed while the items widget runs
GridStart ==
    /\ entity = CHOOSE e \in EntityKinds : ~e.has_alignment
    /\ has_columns = FALSE
    /\ columns = << >>
    /\ children = << >>
    /\ bounds = << >>
    /\ current_child = 0
    /\ columns_cache = EmptyMap
    /\ pc = "idle"
    /\ result = NoResult
    /\ requested = << >>
    /\ calls = 0
    /\ lookup = << 0, 0 >>
    /\ history = "fresh"
    /\ first_pass = NoSnapshot
    /\ prev = [current_child |-> 0, cached |-> 0]

ItemsInit == GridStart /\ ItemsStart

\* ItemsWidget::items_builder(self, builder): on the widget under construction
items_builder(b) ==
    /\ ~built
    /\ builder' = b
    /\ UNCHANGED << built, items_panel, appended, builder_calls, update_calls >>
    /\ UNCHANGED grid_vars

\* Template::template: the Container and, in it, the Stack named items_panel
template ==
    /\ ~built
    /\ built' = TRUE
    /\ items_panel' = TRUE
    /\ UNCHANGED << builder, appended, builder_calls, update_calls >>
    /\ UNCHANGED grid_vars

\* the application takes the panel out of the widget's subtree
DetachPanel ==
    /\ built
    /\ items_panel
    /\ items_panel' = FALSE
    /\ UNCHANGED << builder, built, appended, builder_calls, update_calls >>
    /\ UNCHANGED grid_vars

\* the Entity a builder call returns: a new one on every call
BuiltChild(b, n) == [built_by |-> b, entity |-> n]

\* faulty variant: the builder runs whenever it is set, panel or not
BuilderCalls_nopanel(b, panel) == IF b # NoBuilder THEN 1 ELSE 0

\* builder(&mut build_context) runs once, inside both if-lets
BuilderCalls(b, panel) == IF b # NoBuilder /\ panel THEN 1 ELSE 0

\* State::update: build_context.append_child(items_panel, child)
update ==
    /\ built
    /\ update_calls < MaxUpdates
    /\ builder_calls' = BuilderCalls(builder, items_panel)
    /\ appended' = appended \o
           [i \in 1..BuilderCalls(builder, items_panel) |->
               BuiltChild(builder, Len(appended) + i)]
    /\ update_calls' = update_calls + 1
    /\ UNCHANGED << builder, built, items_panel >>
    /\ UNCHANGED grid_vars

ItemsNext ==
    \/ \E b \in Builders : items_builder(b)
    \/ template
    \/ DetachPanel
    \/ update

ItemsSpec == ItemsInit /\ [][ItemsNext]_vars

\* C17 (ItemsWidgetState::update): an update calls the builder at most once;
\* with a builder set and items_panel found it appends exactly one child, the
\* one that call built, and otherwise it calls no builder and appends nothing;
\* so with a builder set and the panel in place, k updates have appended k
\* children, and without a builder none.
C17_UpdateAppendsOne ==
    /\ [][update_calls' # update_calls =>
              /\ update_calls' = update_calls + 1
              /\ builder_calls' \in {0, 1}
              /\ (builder # NoBuilder /\ items_panel) =>
                     /\ builder_calls' = 1
                     /\ appended' = Append(appended,
                                           BuiltChild(builder, Len(appended) + 1))
              /\ (builder = NoBuilder \/ ~items_panel) =>
                     /\ builder_calls' = 0
                     /\ appended' = appended]_vars
    /\ []((builder # NoBuilder /\ items_panel) => Len(appended) = update_calls)
    /\ [](builder = NoBuilder => appended = << >>)

\* k = MaxUpdates updates with a builder set and the panel there: k children
C17_Witness ==
    /\ builder = "second"
    /\ items_panel
    /\ update_calls = MaxUpdates
    /\ Len(appended) = MaxUpdates
    /\ builder_calls = 1
    /\ appended[MaxUpdates] = BuiltChild("second", MaxUpdates)

====
